---- MODULE Spec2Model ----
(***************************************************************************)
(* Model of src/main.rs: the recursive equality-tensor builder             *)
(* recurse_mul_sub, the iterative builder reference, the sibling recursive *)
(* patterns of tests 1..3, the vector generator gen_vec and the battery    *)
(* run by main.                                                            *)
(*                                                                         *)
(* Field elements are canonical residues 0..p-1.  The builders are generic *)
(* over the field (fn ...<F: Field>), so every operator takes the modulus  *)
(* p.  The 254-bit modulus of BN254Config is out of the checker's reach:   *)
(* the builders' state machine runs over Z/P for a small P, and main over  *)
(* Z/MainModulus, a prime large enough that none of main's seeds and       *)
(* scalars (F::from of a u64 below 5000) is reduced, as none is in the     *)
(* code.  Both are bounds of the model.                                    *)
(***************************************************************************)
EXTENDS Integers, Sequences, FiniteSets, TLC

\* Modulus the builders' state machine runs over, in place of BN254Config's.
P == 5

\* Modulus main runs over, in place of BN254Config's: the largest prime
\* whose products of two residues stay below 2^31.
MainModulus == 46337

\* Largest point dimension drawn by Init.
MaxDim == 2

\* Largest number of successive builder calls on one accumulator.
MaxCalls == 2

Pow2(k) == 2 ^ k

Field(p) == 0 .. (p - 1)

(***************************************************************************)
(* Field arithmetic (ark_ff::Fp), by its contract on canonical residues.   *)
(***************************************************************************)

\* F::from(n): reduction of an unsigned integer modulo p.
FromInt(p, n) == n % p

\* a + b: add, then subtract the modulus once if the sum reached it.
FAdd(p, a, b) == IF a + b >= p THEN a + b - p ELSE a + b

\* a - b: borrow the modulus when b > a.
FSub(p, a, b) == IF b > a THEN a + p - b ELSE a - b

\* a * b: product reduced modulo p.
FMul(p, a, b) == (a * b) % p

\* vec![F::ZERO; len]
Zeros(len) == [k \in 1 .. len |-> 0]

(***************************************************************************)
(* recurse_mul_sub, one step at a time.  A configuration is                *)
(*   acc    the whole buffer the outermost caller owns,                    *)
(*   stack  the call frames, outermost first; a frame holds its slice      *)
(*          (offset lo, length len), the number k of coordinates already   *)
(*          consumed (its point is point[k+1..n]), its scalar, the split   *)
(*          position mid and the two scalars s0, s1 once computed, and     *)
(*          where it stands: "entry", "low" (inside the first recursive    *)
(*          call) or "high" (inside the second),                           *)
(*   status "running", "returned" or "panicked",                           *)
(*   adds   how many times each cell was added into during this call.      *)
(***************************************************************************)

Frame(lo, len, k, scalar) ==
    [lo |-> lo, len |-> len, k |-> k, scalar |-> scalar,
     mid |-> 0, s0 |-> 0, s1 |-> 0, pc |-> "entry"]

\* The configuration at the call recurse_mul_sub(&mut acc, &point, scalar).
BuildStart(acc, scalar) ==
    [acc |-> acc, stack |-> <<Frame(0, Len(acc), 0, scalar)>>,
     status |-> "running", adds |-> [c \in 1 .. Len(acc) |-> 0]]

Top(cfg) == cfg.stack[Len(cfg.stack)]

Pop(stack) == SubSeq(stack, 1, Len(stack) - 1)

ReplaceTop(stack, f) == [stack EXCEPT ![Len(stack)] = f]

\* `if let [x0, xs @ ..] = point` matches: the frame's point is not empty.
AtSplit(point, cfg) ==
    /\ cfg.status = "running"
    /\ Top(cfg).pc = "entry"
    /\ Top(cfg).k < Len(point)

\* The else branch: the frame's point is empty.
AtLeaf(point, cfg) ==
    /\ cfg.status = "running"
    /\ Top(cfg).pc = "entry"
    /\ Top(cfg).k = Len(point)

AtLowReturned(cfg) == cfg.status = "running" /\ Top(cfg).pc = "low"

AtHighReturned(cfg) == cfg.status = "running" /\ Top(cfg).pc = "high"

\* Variant: the operands of the subtraction exchanged (s1 - scalar).
SubSwapped(p, scalar, s1) == FSub(p, s1, scalar)

\* Variant: no subtraction, the scalar passed on unchanged (the pattern of
\* recurse_mul_only).
SubSkipped(p, scalar, s1) == scalar

\* let s0 = scalar - s1;
SubAfterMul(p, scalar, s1) == FSub(p, scalar, s1)

\* Lines 66..69: split_at_mut(1 << xs.len()) (panics when the slice is
\* shorter than the split position), s1 = scalar * x0, s0 = scalar - s1,
\* then the call recurse_mul_sub(a0, xs, s0).
EnterSplit(p, point, cfg) ==
    LET f   == Top(cfg)
        x0  == point[f.k + 1]
        mid == Pow2(Len(point) - f.k - 1)
        s1  == FMul(p, f.scalar, x0)
        s0  == SubAfterMul(p, f.scalar, s1)
        g   == [f EXCEPT !.mid = mid, !.s0 = s0, !.s1 = s1, !.pc = "low"]
    IN  IF mid > f.len
        THEN [cfg EXCEPT !.status = "panicked"]
        ELSE [cfg EXCEPT !.stack =
                 Append(ReplaceTop(cfg.stack, g), Frame(f.lo, mid, f.k + 1, s0))]

\* Variant: the second call is handed a0 again.
HighFrameAliased(f) == Frame(f.lo, f.mid, f.k + 1, f.s1)

\* Variant: the second call is handed s0 instead of s1.
HighFrameLowScalar(f) == Frame(f.lo + f.mid, f.len - f.mid, f.k + 1, f.s0)

\* The slice handed to the second recursive call: a1, the part of the
\* frame's slice from mid on.
HighFrame(f) == Frame(f.lo + f.mid, f.len - f.mid, f.k + 1, f.s1)

\* Line 70: the first call has returned; recurse_mul_sub(a1, xs, s1).
CallHigh(cfg) ==
    LET f == Top(cfg)
        g == [f EXCEPT !.pc = "high"]
    IN  [cfg EXCEPT !.stack = Append(ReplaceTop(cfg.stack, g), HighFrame(f))]

\* A frame returns: it is popped; the outermost return ends the call.
Return(cfg) ==
    IF Len(cfg.stack) = 1
    THEN [cfg EXCEPT !.stack = <<>>, !.status = "returned"]
    ELSE [cfg EXCEPT !.stack = Pop(cfg.stack)]

\* Variant: the leaf stores the scalar instead of adding it.
LeafStore(p, cfg) ==
    LET f == Top(cfg)
        c == f.lo + 1
    IN  IF f.len = 0
        THEN [cfg EXCEPT !.status = "panicked"]
        ELSE Return([cfg EXCEPT !.acc[c] = f.scalar, !.adds[c] = @ + 1])

\* Line 72: acc[0] += scalar on the frame's slice (index out of bounds on an
\* empty slice), then the frame returns.
LeafAdd(p, cfg) ==
    LET f == Top(cfg)
        c == f.lo + 1
    IN  IF f.len = 0
        THEN [cfg EXCEPT !.status = "panicked"]
        ELSE Return([cfg EXCEPT !.acc[c] = FAdd(p, @, f.scalar),
                                !.adds[c] = @ + 1])

\* One step of the call.
BuildStep(p, point, cfg) ==
    CASE AtSplit(point, cfg)  -> EnterSplit(p, point, cfg)
      [] AtLeaf(point, cfg)   -> LeafAdd(p, cfg)
      [] AtLowReturned(cfg)   -> CallHigh(cfg)
      [] AtHighReturned(cfg)  -> Return(cfg)
      [] OTHER                -> cfg

\* The call run until it returns or panics.
RECURSIVE BuildRun(_, _, _)
BuildRun(p, point, cfg) ==
    IF cfg.status = "running" THEN BuildRun(p, point, BuildStep(p, point, cfg))
    ELSE cfg

\* recurse_mul_sub(&mut acc, &point, scalar) as a whole.
recurse_mul_sub(p, acc, point, scalar) == BuildRun(p, point, BuildStart(acc, scalar))

(***************************************************************************)
(* reference, one iteration of `for i in 0..n` at a time.                  *)
(***************************************************************************)

\* Variant: the bits of the index taken least significant first.
BitLsbFirst(i, n, j) == (i \div Pow2(j - 1)) % 2

\* bit = (i >> (point.len() - 1 - j)) & 1, for j counted from 1.
Bit(i, n, j) == (i \div Pow2(n - j)) % 2

\* The inner loop over the coordinates: contribution after the first j.
RECURSIVE Contribution(_, _, _, _, _)
Contribution(p, point, scalar, i, j) ==
    IF j = 0 THEN scalar
    ELSE LET c  == Contribution(p, point, scalar, i, j - 1)
             pj == point[j]
         IN  IF Bit(i, Len(point), j) = 1
             THEN FMul(p, c, pj)
             ELSE FMul(p, c, FSub(p, 1, pj))

RefStart(acc) == [acc |-> acc, i |-> 0, status |-> "running"]

\* Variant: the iteration stores the contribution instead of adding it.
RefStepStore(p, point, scalar, cfg) ==
    IF cfg.i = Pow2(Len(point)) THEN [cfg EXCEPT !.status = "returned"]
    ELSE IF cfg.i >= Len(cfg.acc) THEN [cfg EXCEPT !.status = "panicked"]
    ELSE [cfg EXCEPT
            !.acc[cfg.i + 1] = Contribution(p, point, scalar, cfg.i, Len(point)),
            !.i = @ + 1]

\* One iteration: acc[i] += contribution (index out of bounds past the end);
\* the loop ends at i = 1 << point.len().
RefStep(p, point, scalar, cfg) ==
    IF cfg.i = Pow2(Len(point)) THEN [cfg EXCEPT !.status = "returned"]
    ELSE IF cfg.i >= Len(cfg.acc) THEN [cfg EXCEPT !.status = "panicked"]
    ELSE [cfg EXCEPT
            !.acc[cfg.i + 1] =
                FAdd(p, @, Contribution(p, point, scalar, cfg.i, Len(point))),
            !.i = @ + 1]

RECURSIVE RefRun(_, _, _, _)
RefRun(p, point, scalar, cfg) ==
    IF cfg.status = "running"
    THEN RefRun(p, point, scalar, RefStep(p, point, scalar, cfg))
    ELSE cfg

\* reference(&mut acc, &point, scalar) as a whole.
reference(p, acc, point, scalar) == RefRun(p, point, scalar, RefStart(acc))

(***************************************************************************)
(* The recursive patterns of tests 1..3, as functions from the slice to    *)
(* its contents when the call ends and how it ends: "returned", or         *)
(* "panicked" (a split position past the end of the slice, or acc[0] on an *)
(* empty slice); what was added into before a panic stays added.           *)
(***************************************************************************)

\* Trials per test of the battery (main: ITERS), scaled down.
ITERS == 3

\* Dimension of the battery's points (main: DIM), scaled down.
DIM == 2

Low(acc, mid) == SubSeq(acc, 1, mid)

Rest(acc, mid) == SubSeq(acc, mid + 1, Len(acc))

Panicked(acc) == [acc |-> acc, status |-> "panicked"]

\* acc[0] += scalar
AddFirst(p, acc, scalar) ==
    IF Len(acc) = 0 THEN Panicked(acc)
    ELSE [acc |-> [acc EXCEPT ![1] = FAdd(p, @, scalar)], status |-> "returned"]

\* The slice after the call on its first part ended as r0 and, if that
\* returned, the call on its second part ended as r1.
Halves(acc, mid, r0, r1) ==
    IF r0.status = "panicked" THEN Panicked(r0.acc \o Rest(acc, mid))
    ELSE [acc |-> r0.acc \o r1.acc, status |-> r1.status]

RECURSIVE recurse_add_only(_, _, _, _)
recurse_add_only(p, acc, depth, scalar) ==
    IF depth = 0 THEN AddFirst(p, acc, scalar)
    ELSE LET mid == Len(acc) \div 2
         IN  Halves(acc, mid,
                    recurse_add_only(p, Low(acc, mid), depth - 1, scalar),
                    recurse_add_only(p, Rest(acc, mid), depth - 1, scalar))

RECURSIVE recurse_mul_only(_, _, _, _)
recurse_mul_only(p, acc, pt, scalar) ==
    IF Len(pt) = 0 THEN AddFirst(p, acc, scalar)
    ELSE LET xs  == Tail(pt)
             mid == Pow2(Len(xs))
             s1  == FMul(p, scalar, Head(pt))
         IN  IF mid > Len(acc) THEN Panicked(acc)
             ELSE Halves(acc, mid,
                         recurse_mul_only(p, Low(acc, mid), xs, scalar),
                         recurse_mul_only(p, Rest(acc, mid), xs, s1))

RECURSIVE recurse_sub_only(_, _, _, _)
recurse_sub_only(p, acc, pt, scalar) ==
    IF Len(pt) = 0 THEN AddFirst(p, acc, scalar)
    ELSE LET xs  == Tail(pt)
             mid == Pow2(Len(xs))
             s0  == FSub(p, scalar, Head(pt))
         IN  IF mid > Len(acc) THEN Panicked(acc)
             ELSE Halves(acc, mid,
                         recurse_sub_only(p, Low(acc, mid), xs, s0),
                         recurse_sub_only(p, Rest(acc, mid), xs, scalar))

\* Test 2's inline reference: c after the first k coordinates, for cell j.
RECURSIVE MulOnlyCell(_, _, _, _, _)
MulOnlyCell(p, pt, scalar, j, k) ==
    IF k = 0 THEN scalar
    ELSE LET c == MulOnlyCell(p, pt, scalar, j, k - 1)
         IN  IF Bit(j, DIM, k) = 1 THEN FMul(p, c, pt[k]) ELSE c

\* Test 3's inline reference.
RECURSIVE SubOnlyCell(_, _, _, _, _)
SubOnlyCell(p, pt, scalar, j, k) ==
    IF k = 0 THEN scalar
    ELSE LET c == SubOnlyCell(p, pt, scalar, j, k - 1)
         IN  IF Bit(j, DIM, k) = 0 THEN FSub(p, c, pt[k]) ELSE c

\* The value of `current` after k rounds of current = current * base + 1.
RECURSIVE GenCurrent(_, _, _)
GenCurrent(p, base, k) ==
    IF k = 0 THEN base
    ELSE FAdd(p, FMul(p, GenCurrent(p, base, k - 1), base), 1)

gen_vec(p, size, seed) ==
    [k \in 1 .. size |-> GenCurrent(p, FromInt(p, seed), k - 1)]

(***************************************************************************)
(* The toolchain hazard the program exists to detect (main.rs, header and  *)
(* the banner of test 4): in a miscompiled build a recursive routine may   *)
(* leave an accumulator that differs from what the source computes.  The   *)
(* battery only compares accumulators for equality, so one differing       *)
(* accumulator stands for all of them.                                     *)
(***************************************************************************)
Builds == {"sound", "miscompiled"}

Corrupt(p, acc) == [acc EXCEPT ![Len(acc)] = FAdd(p, @, 1)]

\* What a recursive routine can leave in a build, given the source's result.
Built(b, p, acc) == IF b = "miscompiled" THEN {acc, Corrupt(p, acc)} ELSE {acc}

\* Variant: the counter is set instead of incremented.
CountFailOnce(fails, differ) == IF differ THEN 1 ELSE fails

\* if <the trial's accumulators differ> { fails += 1; }
CountFail(fails, differ) == IF differ THEN fails + 1 ELSE fails

\* if fails > 0 { "FAIL" } else { "PASS" }
Verdict(fails) == IF fails > 0 THEN "FAIL" ELSE "PASS"

\* The line a test prints: label, verdict and "fails/ITERS".
ReportLine(label, fails) ==
    [label |-> label, verdict |-> Verdict(fails), fails |-> fails, iters |-> ITERS]

Labels == <<"ADD only", "MUL only", "SUB only", "MUL then SUB">>

(***************************************************************************)
(* The builders as a state machine.  A behaviour fixes a field, a point    *)
(* and two accumulators of equal contents, then makes up to MaxCalls       *)
(* rounds; a round calls recurse_mul_sub on the first accumulator and,     *)
(* once that has returned, reference on the second, with the same point    *)
(* and scalar (main, lines 174..175).  Accumulators are not reset between  *)
(* rounds.  A panic unwinds the process: nothing runs after it.            *)
(***************************************************************************)
VARIABLES
    modulus,    \* the field's modulus
    point,      \* the point of every call of the behaviour
    scalar,     \* the scalar of the current round
    init,       \* the accumulators' contents before the first round
    entry,      \* the first accumulator's contents at the current call
    total,      \* field sum of the scalars of the rounds so far
    calls,      \* rounds started
    pc,         \* "idle", "recurse", "reference", "done"
    run,        \* configuration of recurse_mul_sub on the first accumulator
    ref,        \* configuration of reference on the second accumulator
    build,      \* main: the build that runs, "sound" or "miscompiled"
    test,       \* main: the test in progress, 1..4; 0 before and 5 after
    iter,       \* main: the loop variable i of the test in progress
    fails,      \* main: the counter fails of the test in progress
    report,     \* main: the result lines printed so far
    trials,     \* main: test 4's trials so far, inputs and outputs
    exit_status \* main: the process's exit status; -1 while it runs

builderVars == <<modulus, point, scalar, init, entry, total, calls, pc, run, ref>>

mainVars == <<build, test, iter, fails, report, trials, exit_status>>

vars == <<builderVars, mainVars>>

\* main is not running.
MainIdle ==
    /\ build = "sound"
    /\ test = 0
    /\ iter = 0
    /\ fails = 0
    /\ report = <<>>
    /\ trials = <<>>
    /\ exit_status = -1

\* The worked example of the specification: P = 17, point [3, 5], scalar 2.
Scenario == [modulus |-> 17, point |-> <<3, 5>>, scalar |-> 2]

Points(p) == UNION {[1 .. n -> Field(p)] : n \in 0 .. MaxDim}

\* Accumulator lengths tried for an n-dimensional point: 2^n, and every
\* shorter and one longer length.
Lengths(n) == 0 .. (Pow2(n) + 1)

Ramp(p, len) == [k \in 1 .. len |-> k % p]

InitAccs(p, n) ==
    {Zeros(len) : len \in Lengths(n)} \cup {Ramp(p, Pow2(n))}

\* The scalars a round may use.
Scalars(p) == IF p = Scenario.modulus THEN {Scenario.scalar} ELSE Field(p)

Idle(acc) == [acc |-> acc, stack |-> <<>>, status |-> "returned",
              adds |-> [c \in 1 .. Len(acc) |-> 0]]

InitWith(p, pt, acc) ==
    /\ modulus = p
    /\ point = pt
    /\ init = acc
    /\ entry = acc
    /\ scalar = 0
    /\ total = 0
    /\ calls = 0
    /\ pc = "idle"
    /\ run = Idle(acc)
    /\ ref = [acc |-> acc, i |-> 0, status |-> "returned"]
    /\ MainIdle

Init ==
    \/ \E pt \in Points(P) : \E acc \in InitAccs(P, Len(pt)) : InitWith(P, pt, acc)
    \/ InitWith(Scenario.modulus, Scenario.point, Zeros(Pow2(Len(Scenario.point))))

\* recurse_mul_sub(&mut acc1, &point, s) is called.
StartCall(s) ==
    /\ pc \in {"idle", "done"}
    /\ calls < MaxCalls
    /\ scalar' = s
    /\ entry' = run.acc
    /\ total' = FAdd(modulus, total, s)
    /\ calls' = calls + 1
    /\ pc' = "recurse"
    /\ run' = BuildStart(run.acc, s)
    /\ UNCHANGED <<modulus, point, init, ref>>
    /\ UNCHANGED mainVars

Split ==
    /\ pc = "recurse"
    /\ AtSplit(point, run)
    /\ run' = EnterSplit(modulus, point, run)
    /\ UNCHANGED <<modulus, point, scalar, init, entry, total, calls, pc, ref>>
    /\ UNCHANGED mainVars

Leaf ==
    /\ pc = "recurse"
    /\ AtLeaf(point, run)
    /\ run' = LeafAdd(modulus, run)
    /\ UNCHANGED <<modulus, point, scalar, init, entry, total, calls, pc, ref>>
    /\ UNCHANGED mainVars

High ==
    /\ pc = "recurse"
    /\ AtLowReturned(run)
    /\ run' = CallHigh(run)
    /\ UNCHANGED <<modulus, point, scalar, init, entry, total, calls, pc, ref>>
    /\ UNCHANGED mainVars

Ret ==
    /\ pc = "recurse"
    /\ AtHighReturned(run)
    /\ run' = Return(run)
    /\ UNCHANGED <<modulus, point, scalar, init, entry, total, calls, pc, ref>>
    /\ UNCHANGED mainVars

\* recurse_mul_sub has returned; reference(&mut acc2, &point, scalar) is called.
CallReference ==
    /\ pc = "recurse"
    /\ run.status = "returned"
    /\ pc' = "reference"
    /\ ref' = RefStart(ref.acc)
    /\ UNCHANGED <<modulus, point, scalar, init, entry, total, calls, run>>
    /\ UNCHANGED mainVars

RefIterate ==
    /\ pc = "reference"
    /\ ref.status = "running"
    /\ ref.i < Pow2(Len(point))
    /\ ref' = RefStep(modulus, point, scalar, ref)
    /\ UNCHANGED <<modulus, point, scalar, init, entry, total, calls, pc, run>>
    /\ UNCHANGED mainVars

RefReturn ==
    /\ pc = "reference"
    /\ ref.status = "running"
    /\ ref.i = Pow2(Len(point))
    /\ ref' = RefStep(modulus, point, scalar, ref)
    /\ pc' = "done"
    /\ UNCHANGED <<modulus, point, scalar, init, entry, total, calls, run>>
    /\ UNCHANGED mainVars

Next ==
    \/ \E s \in Scalars(modulus) : StartCall(s)
    \/ Split
    \/ Leaf
    \/ High
    \/ Ret
    \/ CallReference
    \/ RefIterate
    \/ RefReturn

Spec == Init /\ [][Next]_vars

(***************************************************************************)
(* main as a state machine: four tests of ITERS trials each, a result line *)
(* after each test, then the return from main.  A step is one trial (one   *)
(* iteration of a test's loop), one println! of a result, or the return.   *)
(***************************************************************************)

\* The builders' variables while main runs: main keeps its accumulators in
\* locals of each trial.
BuilderIdle ==
    /\ modulus = MainModulus
    /\ point = <<>>
    /\ init = <<0>>
    /\ entry = <<0>>
    /\ scalar = 0
    /\ total = 0
    /\ calls = 0
    /\ pc = "idle"
    /\ run = Idle(<<0>>)
    /\ ref = [acc |-> <<0>>, i |-> 0, status |-> "returned"]

MainInit ==
    /\ BuilderIdle
    /\ build \in Builds
    /\ test = 1
    /\ iter = 0
    /\ fails = 0
    /\ report = <<>>
    /\ trials = <<>>
    /\ exit_status = -1

\* let size = 1 << DIM;
Size == Pow2(DIM)

InLoop(t) == test = t /\ iter < ITERS /\ exit_status = -1

\* A panic unwinds main: the process ends with status 101.
AfterCalls(statuses) ==
    IF "panicked" \in statuses THEN 101 ELSE exit_status

\* Test 1, lines 115..122.
TrialAddOnly ==
    /\ InLoop(1)
    /\ LET sc == FromInt(MainModulus, iter + 1)
           r  == recurse_add_only(MainModulus, Zeros(Size), DIM, sc)
       IN  /\ \E acc \in Built(build, MainModulus, r.acc) :
                 fails' = CountFail(fails, \E c \in 1 .. Len(acc) : acc[c] # sc)
           /\ exit_status' = AfterCalls({r.status})
    /\ iter' = iter + 1
    /\ UNCHANGED <<build, test, report, trials>>
    /\ UNCHANGED builderVars

\* Test 2, lines 127..143.
TrialMulOnly ==
    /\ InLoop(2)
    /\ LET pt   == gen_vec(MainModulus, DIM, iter + 2)
           sc   == FromInt(MainModulus, iter + 2000)
           r    == recurse_mul_only(MainModulus, Zeros(Size), pt, sc)
           acc2 == [j \in 1 .. Size |->
                       MulOnlyCell(MainModulus, pt, sc, j - 1, Len(pt))]
       IN  /\ \E acc1 \in Built(build, MainModulus, r.acc) :
                 fails' = CountFail(fails, acc1 # acc2)
           /\ exit_status' = AfterCalls({r.status})
    /\ iter' = iter + 1
    /\ UNCHANGED <<build, test, report, trials>>
    /\ UNCHANGED builderVars

\* Test 3, lines 148..164.
TrialSubOnly ==
    /\ InLoop(3)
    /\ LET pt   == gen_vec(MainModulus, DIM, iter + 3)
           sc   == FromInt(MainModulus, iter + 3000)
           r    == recurse_sub_only(MainModulus, Zeros(Size), pt, sc)
           acc2 == [j \in 1 .. Size |->
                       SubOnlyCell(MainModulus, pt, sc, j - 1, Len(pt))]
       IN  /\ \E acc1 \in Built(build, MainModulus, r.acc) :
                 fails' = CountFail(fails, acc1 # acc2)
           /\ exit_status' = AfterCalls({r.status})
    /\ iter' = iter + 1
    /\ UNCHANGED <<build, test, report, trials>>
    /\ UNCHANGED builderVars

\* Test 4, lines 169..177.
TrialMulSub ==
    /\ InLoop(4)
    /\ LET pt     == gen_vec(MainModulus, DIM, iter + 4)
           sc     == FromInt(MainModulus, iter + 4000)
           start1 == Zeros(Size)
           start2 == Zeros(Size)
           r1     == recurse_mul_sub(MainModulus, start1, pt, sc)
           r2     == reference(MainModulus, start2, pt, sc)
       IN  /\ \E acc1 \in Built(build, MainModulus, r1.acc) :
                 /\ fails' = CountFail(fails, acc1 # r2.acc)
                 /\ trials' = Append(trials,
                       [point |-> pt, scalar |-> sc, start1 |-> start1,
                        start2 |-> start2, acc1 |-> acc1, acc2 |-> r2.acc])
           /\ exit_status' = AfterCalls({r1.status, r2.status})
    /\ iter' = iter + 1
    /\ UNCHANGED <<build, test, report>>
    /\ UNCHANGED builderVars

\* The println! after a test's loop (lines 123, 144, 165, 178); the next
\* test declares its own fails = 0.
Report ==
    /\ test \in 1 .. 4
    /\ iter = ITERS
    /\ exit_status = -1
    /\ report' = Append(report, ReportLine(Labels[test], fails))
    /\ test' = test + 1
    /\ iter' = 0
    /\ fails' = IF test < 4 THEN 0 ELSE fails
    /\ UNCHANGED <<build, trials, exit_status>>
    /\ UNCHANGED builderVars

\* Lines 180..183: main returns (), whatever was counted; the process ends
\* with status 0.
Exit ==
    /\ test = 5
    /\ exit_status = -1
    /\ exit_status' = 0
    /\ UNCHANGED <<build, test, iter, fails, report, trials>>
    /\ UNCHANGED builderVars

MainNext ==
    \/ TrialAddOnly
    \/ TrialMulOnly
    \/ TrialSubOnly
    \/ TrialMulSub
    \/ Report
    \/ Exit

SpecMain == MainInit /\ [][MainNext]_vars

(***************************************************************************)
(* What the claims speak of, stated over the integers and independently    *)
(* of the builders' arithmetic.                                            *)
(***************************************************************************)

Dim == Len(point)

\* The accumulators of the behaviour have the length the contract asks for.
RightLength == Len(init) = Pow2(Dim)

\* The call of the current round of recurse_mul_sub has returned.
BuildReturned == calls >= 1 /\ run.status = "returned"

\* Bit i (1 = most significant of the n bits) of the index b.
IndexBit(b, n, i) == (b \div Pow2(n - i)) % 2

\* PRODUCT over the first j coordinates of (x_i if bit i of b is 1, else
\* 1 - x_i), as an integer.
RECURSIVE CornerProduct(_, _, _)
CornerProduct(pt, b, j) ==
    IF j = 0 THEN 1
    ELSE CornerProduct(pt, b, j - 1)
            * (IF IndexBit(b, Len(pt), j) = 1 THEN pt[j] ELSE 1 - pt[j])

\* s * PRODUCT_i (...) modulo p, for corner b.
Term(p, pt, s, b) == (s * CornerProduct(pt, b, Len(pt))) % p

\* Integer sum of the first j cells of a sequence.
RECURSIVE SumCells(_, _)
SumCells(seq, j) == IF j = 0 THEN 0 ELSE SumCells(seq, j - 1) + seq[j]

\* Integer sum over the corners 0..b of the corner products.
RECURSIVE SumCorners(_, _)
SumCorners(pt, b) ==
    IF b < 0 THEN 0 ELSE SumCorners(pt, b - 1) + CornerProduct(pt, b, Len(pt))

\* The index whose bit i equals the 0/1 coordinate i.
RECURSIVE CornerIndex(_, _)
CornerIndex(pt, j) ==
    IF j = 0 THEN 0 ELSE 2 * CornerIndex(pt, j - 1) + pt[j]

Boolean(pt) == \A i \in 1 .. Len(pt) : pt[i] \in {0, 1}

(***************************************************************************)
(* C1  Equivalence law: after recurse_mul_sub on one zero-filled           *)
(* accumulator of length 2^n and reference on another, with the same point *)
(* and scalar, the two accumulators are equal cell for cell.               *)
(***************************************************************************)
C1_EquivalenceLaw ==
    (pc = "done" /\ calls = 1 /\ init = Zeros(Pow2(Dim)))
        => /\ ref.status = "returned"
           /\ run.acc = ref.acc

C1_Witness ==
    /\ pc = "done" /\ calls = 1 /\ init = Zeros(Pow2(Dim))
    /\ modulus = P /\ Dim = 2
    /\ \A i \in 1 .. Dim : point[i] \notin {0, 1}
    /\ scalar # 0
    /\ \A c \in 1 .. Len(run.acc) : run.acc[c] # 0
    /\ run.acc = ref.acc

(***************************************************************************)
(* C2  Post-condition of recurse_mul_sub: on any accumulator of length     *)
(* 2^n, after the call returns every cell b holds its value at the call    *)
(* plus s * PRODUCT_i (x_i if bit i of b is 1 else 1 - x_i), modulo the    *)
(* field's modulus; on the worked example (P = 17, point [3, 5], scalar 2, *)
(* zero accumulator) the result is [16, 14, 10, 13].                       *)
(***************************************************************************)
C2_PostCondition ==
    (BuildReturned /\ RightLength)
        => /\ Len(run.acc) = Pow2(Dim)
           /\ \A b \in 0 .. (Pow2(Dim) - 1) :
                 run.acc[b + 1] =
                     (entry[b + 1] + Term(modulus, point, scalar, b)) % modulus
           /\ (modulus = Scenario.modulus /\ calls = 1)
                 => run.acc = <<16, 14, 10, 13>>

C2_Witness ==
    /\ BuildReturned /\ RightLength
    /\ modulus = P /\ Dim = 2
    /\ \A c \in 1 .. Len(entry) : entry[c] # 0
    /\ \A i \in 1 .. Dim : point[i] \notin {0, 1}
    /\ scalar # 0
    /\ \E c \in 1 .. Len(entry) : run.acc[c] = 0

\* The worked example has run.
C2_ScenarioReached ==
    /\ BuildReturned /\ modulus = Scenario.modulus /\ calls = 1
    /\ run.acc = <<16, 14, 10, 13>>

(***************************************************************************)
(* C3  Fail fast: with an accumulator whose length is not 2^n, a call of   *)
(* recurse_mul_sub never returns normally, and when it aborts no cell has  *)
(* been modified.                                                          *)
(***************************************************************************)
C3_FailFast ==
    (calls >= 1 /\ ~RightLength)
        => /\ run.status # "returned"
           /\ (run.status = "panicked" => run.acc = entry)

\* The two halves of C3, apart: a longer accumulator is accepted ...
C3_NeverReturns == (calls >= 1 /\ ~RightLength) => run.status # "returned"

\* ... and a shorter one may abort after cells were added into.
C3_AbortsUntouched ==
    (calls >= 1 /\ ~RightLength /\ run.status = "panicked") => run.acc = entry

(***************************************************************************)
(* C4  Additivity: successive calls of a builder on the same accumulator,  *)
(* never reset, with scalars s_1 .. s_k leave it as one call with the      *)
(* scalar s_1 + ... + s_k on the initial accumulator does.                 *)
(***************************************************************************)
C4_Additivity ==
    (RightLength /\ calls >= 1)
        => /\ run.status = "returned" =>
                run.acc = recurse_mul_sub(modulus, init, point, total).acc
           /\ pc = "done" =>
                ref.acc = reference(modulus, init, point, total).acc

C4_Witness ==
    /\ RightLength /\ calls = 2 /\ pc = "done"
    /\ modulus = P /\ Dim = 2
    /\ scalar # 0 /\ total # scalar /\ total # 0
    /\ entry # init
    /\ run.acc # entry
    /\ \E c \in 1 .. Len(init) : init[c] # 0

(***************************************************************************)
(* C5  Sum law: after one call of recurse_mul_sub on a zero-filled         *)
(* accumulator of length 2^n, the cells sum, modulo the field's modulus,   *)
(* to s times the sum over all corners of the corner products, which is s. *)
(***************************************************************************)
C5_SumLaw ==
    (BuildReturned /\ calls = 1 /\ init = Zeros(Pow2(Dim)))
        => /\ SumCells(run.acc, Len(run.acc)) % modulus
                 = (scalar * SumCorners(point, Pow2(Dim) - 1)) % modulus
           /\ SumCells(run.acc, Len(run.acc)) % modulus = scalar

C5_Witness ==
    /\ BuildReturned /\ calls = 1 /\ init = Zeros(Pow2(Dim))
    /\ modulus = P /\ Dim = 2
    /\ \A i \in 1 .. Dim : point[i] \notin {0, 1}
    /\ scalar > 1
    /\ SumCells(run.acc, Len(run.acc)) > modulus

(***************************************************************************)
(* C6  Hypercube boundary: for a point of 0/1 coordinates, after one call  *)
(* of recurse_mul_sub on a zero-filled accumulator of length 2^n, the cell *)
(* whose index has bit i (most significant first) equal to coordinate i    *)
(* holds s and every other cell holds zero.                                *)
(***************************************************************************)
C6_Boundary ==
    (BuildReturned /\ calls = 1 /\ init = Zeros(Pow2(Dim)) /\ Boolean(point))
        => \A b \in 0 .. (Pow2(Dim) - 1) :
              run.acc[b + 1] = IF b = CornerIndex(point, Dim) THEN scalar ELSE 0

C6_Witness ==
    /\ BuildReturned /\ calls = 1 /\ init = Zeros(Pow2(Dim))
    /\ modulus = P
    /\ point = <<1, 0>>
    /\ scalar = 3
    /\ run.acc = <<0, 0, 3, 0>>

(***************************************************************************)
(* C7  Field identity: wherever recurse_mul_sub has computed s1 = s * x0   *)
(* and s0 = s - s1, s0 equals the reference's s * (1 - x0), and both are   *)
(* canonical residues.                                                     *)
(***************************************************************************)
C7_FieldIdentity ==
    \A k \in 1 .. Len(run.stack) :
        LET f == run.stack[k] IN
        f.pc # "entry" =>
            LET x0 == point[f.k + 1]
                viaRef == FMul(modulus, f.scalar, FSub(modulus, 1, x0))
            IN  /\ f.s0 = viaRef
                /\ f.s0 \in Field(modulus)
                /\ viaRef \in Field(modulus)
                /\ f.s1 \in Field(modulus)

\* A case where the subtraction borrows: s1 > s.
C7_Witness ==
    \E k \in 1 .. Len(run.stack) :
        LET f == run.stack[k] IN
        /\ f.pc # "entry"
        /\ modulus = P
        /\ f.scalar = 2 /\ point[f.k + 1] = 4
        /\ f.s1 = 3 /\ f.s0 = 4

(***************************************************************************)
(* C9  Spatial disjointness: on an accumulator of length 2^n, at every     *)
(* recursion level the two sub-ranges handed to the recursive calls do not *)
(* overlap, each has half the parent's length, and together they cover the *)
(* parent's range; no cell is added into twice, and at the return every    *)
(* cell has been added into exactly once.                                  *)
(***************************************************************************)
CellsOf(f) == (f.lo + 1) .. (f.lo + f.len)

C9_Disjointness ==
    (RightLength /\ calls >= 1)
        => /\ \A k \in 1 .. Len(run.stack) :
                LET f == run.stack[k]
                    low  == (f.lo + 1) .. (f.lo + f.mid)
                    high == (f.lo + f.mid + 1) .. (f.lo + f.len)
                IN  /\ f.len = Pow2(Dim - f.k)
                    /\ CellsOf(f) \subseteq 1 .. Len(run.acc)
                    /\ f.pc # "entry" =>
                         /\ low \cap high = {}
                         /\ low \cup high = CellsOf(f)
                         /\ Cardinality(low) = Pow2(Dim - f.k - 1)
                         /\ Cardinality(high) = Pow2(Dim - f.k - 1)
                         /\ k < Len(run.stack) =>
                              CellsOf(run.stack[k + 1]) =
                                  IF f.pc = "low" THEN low ELSE high
           /\ \A c \in 1 .. Len(run.acc) : run.adds[c] <= 1
           /\ run.status = "returned" =>
                \A c \in 1 .. Len(run.acc) : run.adds[c] = 1

\* Inside the second recursive call of the outermost frame of a
\* 2-dimensional build, itself inside its own second call.
C9_Witness ==
    /\ RightLength /\ calls >= 1 /\ Dim = 2
    /\ Len(run.stack) = 3
    /\ run.stack[1].pc = "high" /\ run.stack[2].pc = "high"
    /\ CellsOf(run.stack[3]) = {4}
    /\ run.adds = <<1, 1, 1, 0>>

(***************************************************************************)
(* C8  Exit status: when main has ended, its exit status is nonzero if     *)
(* some test of the battery counted a mismatch, and zero only if none did. *)
(***************************************************************************)
Exited == exit_status # -1

Diverged == \E k \in 1 .. Len(report) : report[k].fails > 0

C8_ExitStatus == Exited => (exit_status # 0 <=> Diverged)

\* What main does instead: it ends with status 0 in every run.
C8_AlwaysZero == Exited => exit_status = 0

C8_DivergedExit == Exited /\ Diverged /\ report[4].verdict = "FAIL"

(***************************************************************************)
(* C10  Harness verdict of test 4 (MUL then SUB): every trial starts from  *)
(* two zero-filled accumulators of length 2^DIM and one point and scalar;  *)
(* the mismatch count printed equals the number of trials whose two        *)
(* accumulators differ, the trial count printed equals the number of       *)
(* trials run, and the verdict is FAIL exactly when the count is above 0.  *)
(***************************************************************************)
Differing == {k \in 1 .. Len(trials) : trials[k].acc1 # trials[k].acc2}

C10_HarnessVerdict ==
    /\ \A k \in 1 .. Len(trials) :
          /\ trials[k].start1 = Zeros(Pow2(DIM))
          /\ trials[k].start2 = Zeros(Pow2(DIM))
          /\ Len(trials[k].point) = DIM
          /\ Len(trials[k].acc1) = Pow2(DIM)
          /\ Len(trials[k].acc2) = Pow2(DIM)
    /\ test = 4 => (Len(trials) = iter /\ fails = Cardinality(Differing))
    /\ Len(report) >= 4 =>
          /\ report[4].label = "MUL then SUB"
          /\ report[4].fails = Cardinality(Differing)
          /\ report[4].iters = Len(trials)
          /\ report[4].verdict = "FAIL" <=> report[4].fails > 0
          /\ report[4].verdict \in {"PASS", "FAIL"}

\* Test 4 has reported two mismatches out of its trials, the first trial
\* having matched.
C10_Witness ==
    /\ Len(report) = 4
    /\ report[4].fails = 2
    /\ report[4].verdict = "FAIL"
    /\ trials[1].acc1 = trials[1].acc2
    /\ Cardinality(Differing) = 2

\* A sound build: test 4 reports PASS with no mismatch.
C10_SoundPass ==
    /\ build = "sound"
    /\ Len(report) = 4
    /\ report[4].fails = 0
    /\ report[4].verdict = "PASS"
    /\ \E k \in 1 .. Len(trials) : \E c \in 1 .. Pow2(DIM) : trials[k].acc1[c] # 0

====
